---- MODULE Spec2Model ----
(***************************************************************************)
(* Model of the resume analysis service (src/main.py): one FastAPI         *)
(* endpoint, POST /analyze, whose handler validates an uploaded file,      *)
(* extracts its text and submits it to a text-generation service under a   *)
(* tenacity retry policy.                                                   *)
(*                                                                         *)
(* Texts (file names, unit texts, extracted text, feedback, messages) are  *)
(* sequences of tokens, so that suffix tests and joins are computed.       *)
(***************************************************************************)
EXTENDS Integers, Sequences, FiniteSets, TLC

(* ------------------------------ bounds --------------------------------- *)

NumRequests == 2

MaxUnits == 2

(* --------------------------- program constants ------------------------- *)

MAX_FILE_SIZE == 5 * 1024 * 1024

PDF_EXT == <<".", "p", "d", "f">>

DOCX_EXT == <<".", "d", "o", "c", "x">>

SUPPORTED_TYPES == <<PDF_EXT, DOCX_EXT>>

MAX_ATTEMPTS == 3

WAIT_MULTIPLIER == 1

WAIT_MIN == 4

WAIT_MAX == 10

EXP_BASE == 2

UNSUPPORTED_DETAIL == <<"Unsupported file type. Supported: ", SUPPORTED_TYPES>>

TOO_LARGE_DETAIL == <<"File too large. Max size: ", (MAX_FILE_SIZE \div 1024) \div 1024, "MB">>

EXTRACT_FAILED_DETAIL == <<"Failed to extract text from file">>

INTERNAL_ERROR_DETAIL == <<"Internal server error">>

PLACEHOLDER_ANALYSIS == <<"Failed to analyze resume. Please try again later.">>

LLM_SOURCE == "Gemini-1.5-Flash"

(* ------------------------------ helpers -------------------------------- *)

Max(a, b) == IF a >= b THEN a ELSE b

Min(a, b) == IF a <= b THEN a ELSE b

RECURSIVE Pow(_, _)
Pow(b, e) == IF e = 0 THEN 1 ELSE b * Pow(b, e - 1)

RECURSIVE SumSeq(_)
SumSeq(s) == IF s = <<>> THEN 0 ELSE Head(s) + SumSeq(Tail(s))

(* str.endswith: case-sensitive suffix match *)
EndsWith(s, ext) ==
    /\ Len(s) >= Len(ext)
    /\ SubSeq(s, Len(s) - Len(ext) + 1, Len(s)) = ext

(* any(file.filename.endswith(ext) for ext in SUPPORTED_TYPES) *)
AnySupported(name) ==
    \E i \in 1..Len(SUPPORTED_TYPES) : EndsWith(name, SUPPORTED_TYPES[i])

(* ----------------------------- exceptions ------------------------------ *)

HTTPException(status, detail) ==
    [cls |-> "HTTPException", status |-> status, detail |-> detail]

LibraryError(cls, msg) ==
    [cls |-> cls, status |-> 0, detail |-> msg]

NoExc == [cls |-> "none", status |-> 0, detail |-> <<>>]

(* the classes that derive from Exception; HTTPException is one of them *)
ExceptionClasses ==
    {"HTTPException", "PdfReadError", "PackageNotFoundError",
     "ServiceError", "ValueError", "RetryError"}

IsException(e) == e.cls \in ExceptionClasses

PDF_PARSE_MSG == <<"EOF marker not found">>

DOCX_PARSE_MSG == <<"Package not found">>

(* --------------------------- text extraction --------------------------- *)

(* variant: the condition of the generator is dropped *)
TruthyUnitsKeepsEmpty(units) == units

(* the generator "u for u in units if u": units with a truthy text *)
RECURSIVE TruthyUnits(_)
TruthyUnits(units) ==
    IF units = <<>> THEN <<>>
    ELSE IF Len(Head(units)) > 0
         THEN <<Head(units)>> \o TruthyUnits(Tail(units))
         ELSE TruthyUnits(Tail(units))

(* " ".join(parts) *)
RECURSIVE SpaceJoin(_)
SpaceJoin(parts) ==
    IF parts = <<>> THEN <<>>
    ELSE IF Len(parts) = 1 THEN Head(parts)
    ELSE Head(parts) \o <<" ">> \o SpaceJoin(Tail(parts))

Raised(exc, io) == [raised |-> TRUE, exc |-> exc, value |-> <<>>, io |-> io]

Returned(value, io) == [raised |-> FALSE, exc |-> NoExc, value |-> value, io |-> io]

(* the body of the try block of extract_text *)
ExtractBody(f) ==
    IF ~AnySupported(f.filename)
    THEN Raised(HTTPException(400, UNSUPPORTED_DETAIL), "none")
    ELSE IF f.size > MAX_FILE_SIZE
    THEN Raised(HTTPException(413, TOO_LARGE_DETAIL), "seek")
    ELSE IF EndsWith(f.filename, PDF_EXT)
    THEN IF f.content.fmt = "pdf"
         THEN Returned(SpaceJoin(TruthyUnits(f.content.units)), "read")
         ELSE Raised(LibraryError("PdfReadError", PDF_PARSE_MSG), "read")
    ELSE IF f.content.fmt = "docx"
         THEN Returned(SpaceJoin(TruthyUnits(f.content.units)), "read")
         ELSE Raised(LibraryError("PackageNotFoundError", DOCX_PARSE_MSG), "read")

(* variant: the handler puts str(e) in the detail *)
ExtractTextLeaksDetail(f) ==
    LET b == ExtractBody(f) IN
    IF b.raised /\ IsException(b.exc)
    THEN Raised(HTTPException(500, b.exc.detail), b.io)
    ELSE b

(* variant: the handler swallows the exception and returns no text *)
ExtractTextSwallows(f) ==
    LET b == ExtractBody(f) IN
    IF b.raised /\ IsException(b.exc)
    THEN Returned(<<>>, b.io)
    ELSE b

(* extract_text: the try block under its "except Exception" handler *)
ExtractText(f) ==
    LET b == ExtractBody(f) IN
    IF b.raised /\ IsException(b.exc)
    THEN Raised(HTTPException(500, EXTRACT_FAILED_DETAIL), b.io)
    ELSE b

(* ----------------------------- retry policy ---------------------------- *)

(* variant: the retry predicate holds for every outcome *)
ShouldRetryAlways(out) == TRUE

(* variant: retry_if_exception_type narrowed to one class *)
ShouldRetryServiceErrorOnly(out) == ~out.ok /\ out.exc.cls = "ServiceError"

(* tenacity's default retry predicate, retry_if_exception_type(Exception) *)
ShouldRetry(out) == ~out.ok /\ IsException(out.exc)

(* stop_after_attempt(3) *)
StopAfterAttempt(n) == n >= MAX_ATTEMPTS

(* variant: min is not applied *)
WaitExponentialNoFloor(n) ==
    Min(WAIT_MULTIPLIER * Pow(EXP_BASE, n - 1), WAIT_MAX)

(* wait_exponential(multiplier=1, min=4, max=10) after attempt n *)
WaitExponential(n) ==
    Max(Max(0, WAIT_MIN), Min(WAIT_MULTIPLIER * Pow(EXP_BASE, n - 1), WAIT_MAX))

(* ------------------------------ responses ------------------------------ *)

ResultResponse(body) == [kind |-> "result", http |-> 200, body |-> body]

ErrorResponse(exc) ==
    [kind |-> "error", http |-> exc.status, body |-> [detail |-> exc.detail]]

NoResponse == [kind |-> "none", http |-> 0, body |-> [detail |-> <<>>]]

SuccessBody(filename, feedback) ==
    [filename |-> filename, analysis |-> feedback,
     llm_source |-> LLM_SOURCE, status |-> "success"]

ErrorBody(filename) ==
    [filename |-> filename, analysis |-> PLACEHOLDER_ANALYSIS,
     llm_source |-> "None", status |-> "error"]

(* the outer handlers of analyze_resume: HTTPException is re-raised,
   any other Exception becomes a generic 500 *)
OuterExcept(exc) ==
    IF exc.cls = "HTTPException" THEN ErrorResponse(exc)
    ELSE ErrorResponse(HTTPException(500, INTERNAL_ERROR_DETAIL))

(* variant: the inner handler re-raises *)
AnalysisFailedReraises(filename, exc) == OuterExcept(exc)

(* the inner handler of analyze_resume around analyze_with_gemini *)
AnalysisFailed(filename, exc) ==
    IF IsException(exc) THEN ResultResponse(ErrorBody(filename))
    ELSE OuterExcept(exc)

(* ------------------------------- inputs -------------------------------- *)

Requests == 1..NumRequests

NoReq == 0

UnitTexts == {<<>>, <<"a">>, <<"b", "c">>}

UnitSeqs == UNION {[1..n -> UnitTexts] : n \in 0..MaxUnits}

FileNames ==
    {<<"r">> \o PDF_EXT, <<"r">> \o DOCX_EXT,
     <<"r", ".", "P", "D", "F">>, <<"r", ".", "t", "x", "t">>,
     <<"p", "d", "f">>, <<"r", ".", "d", "o", "c">>}

FileSizes == {1, MAX_FILE_SIZE, MAX_FILE_SIZE + 1}

Garbage == [fmt |-> "garbage", units |-> <<>>]

Contents ==
    {[fmt |-> k, units |-> u] : k \in {"pdf", "docx"}, u \in UnitSeqs}
        \cup {Garbage}

SampleContent == [fmt |-> "pdf", units |-> <<>>]

(* every name and size with one content, and every content under the
   names and sizes that reach the parsers *)
Files ==
    {[filename |-> n, size |-> s, content |-> SampleContent] :
        n \in FileNames, s \in FileSizes}
    \cup
    {[filename |-> n, size |-> s, content |-> c] :
        n \in {<<"r">> \o PDF_EXT, <<"r">> \o DOCX_EXT},
        s \in {1, MAX_FILE_SIZE}, c \in Contents}

NoFile == [filename |-> <<>>, size |-> 0, content |-> [fmt |-> "none", units |-> <<>>]]

Feedbacks == {<<"f", "1">>, <<"f", "2">>}

ServiceErrors ==
    {LibraryError("ServiceError", <<"503 unavailable">>),
     LibraryError("ValueError", <<"response has no text">>)}

Outcomes ==
    {[ok |-> TRUE, text |-> t, exc |-> NoExc] : t \in Feedbacks}
    \cup {[ok |-> FALSE, text |-> <<>>, exc |-> e] : e \in ServiceErrors}

RetryError == LibraryError("RetryError", <<"RetryError">>)

(* ------------------------------- state --------------------------------- *)

VARIABLES pc, loop, file, io, text, attempts, outcomes, waits, response,
          nResults, nErrors

vars == <<pc, loop, file, io, text, attempts, outcomes, waits, response,
          nResults, nErrors>>

Init ==
    /\ pc = [r \in Requests |-> "idle"]
    /\ loop = NoReq
    /\ file = [r \in Requests |-> NoFile]
    /\ io = [r \in Requests |-> "none"]
    /\ text = [r \in Requests |-> <<>>]
    /\ attempts = [r \in Requests |-> 0]
    /\ outcomes = [r \in Requests |-> <<>>]
    /\ waits = [r \in Requests |-> <<>>]
    /\ response = [r \in Requests |-> NoResponse]
    /\ nResults = [r \in Requests |-> 0]
    /\ nErrors = [r \in Requests |-> 0]

(* the handler of r may run: analyze_resume is a coroutine without an
   await, so it holds the event loop from its start to its return *)
CanStep(r) == loop = NoReq \/ loop = r

Respond(r, resp) ==
    /\ response' = [response EXCEPT ![r] = resp]
    /\ pc' = [pc EXCEPT ![r] = "responded"]
    /\ nResults' = [nResults EXCEPT ![r] = @ + (IF resp.kind = "result" THEN 1 ELSE 0)]
    /\ nErrors' = [nErrors EXCEPT ![r] = @ + (IF resp.kind = "error" THEN 1 ELSE 0)]

(* a request reaches the server *)
Arrive(r) ==
    /\ pc[r] = "idle"
    /\ pc' = [pc EXCEPT ![r] = "pending"]
    /\ UNCHANGED <<loop, file, io, text, attempts, outcomes, waits, response,
                   nResults, nErrors>>

(* the event loop starts analyze_resume(file): extract_text runs, and either
   the handler raises or it enters the first call of analyze_with_gemini *)
Begin(r, f) ==
    /\ pc[r] = "pending"
    /\ loop = NoReq
    /\ loop' = r
    /\ file' = [file EXCEPT ![r] = f]
    /\ LET x == ExtractText(f) IN
        /\ io' = [io EXCEPT ![r] = x.io]
        /\ IF x.raised
           THEN /\ Respond(r, OuterExcept(x.exc))
                /\ UNCHANGED <<text, attempts>>
           ELSE /\ text' = [text EXCEPT ![r] = x.value]
                /\ attempts' = [attempts EXCEPT ![r] = 1]
                /\ pc' = [pc EXCEPT ![r] = "calling"]
                /\ UNCHANGED <<response, nResults, nErrors>>
    /\ UNCHANGED <<outcomes, waits>>

(* the blocking generate_content call of the current attempt returns or
   raises, and the retry policy decides what follows *)
ServiceReply(r, out) ==
    /\ pc[r] = "calling"
    /\ CanStep(r)
    /\ outcomes' = [outcomes EXCEPT ![r] = Append(@, out)]
    /\ IF ~ShouldRetry(out)
       THEN /\ Respond(r, IF out.ok
                          THEN ResultResponse(SuccessBody(file[r].filename, out.text))
                          ELSE AnalysisFailed(file[r].filename, out.exc))
            /\ UNCHANGED waits
       ELSE IF StopAfterAttempt(attempts[r])
       THEN /\ Respond(r, AnalysisFailed(file[r].filename, RetryError))
            /\ UNCHANGED waits
       ELSE /\ waits' = [waits EXCEPT ![r] = Append(@, WaitExponential(attempts[r]))]
            /\ pc' = [pc EXCEPT ![r] = "waiting"]
            /\ UNCHANGED <<response, nResults, nErrors>>
    /\ UNCHANGED <<loop, file, io, text, attempts>>

(* the sleep between two attempts ends and the next attempt starts *)
BackoffElapsed(r) ==
    /\ pc[r] = "waiting"
    /\ CanStep(r)
    /\ pc' = [pc EXCEPT ![r] = "calling"]
    /\ attempts' = [attempts EXCEPT ![r] = @ + 1]
    /\ UNCHANGED <<loop, file, io, text, outcomes, waits, response,
                   nResults, nErrors>>

(* the handler has returned or raised: the framework sends the response,
   the per-request values are discarded and the event loop is free *)
Send(r) ==
    /\ pc[r] = "responded"
    /\ loop = r
    /\ loop' = NoReq
    /\ pc' = [pc EXCEPT ![r] = "closed"]
    /\ file' = [file EXCEPT ![r] = NoFile]
    /\ io' = [io EXCEPT ![r] = "none"]
    /\ text' = [text EXCEPT ![r] = <<>>]
    /\ attempts' = [attempts EXCEPT ![r] = 0]
    /\ outcomes' = [outcomes EXCEPT ![r] = <<>>]
    /\ waits' = [waits EXCEPT ![r] = <<>>]
    /\ response' = [response EXCEPT ![r] = NoResponse]
    /\ UNCHANGED <<nResults, nErrors>>

Next ==
    \/ \E r \in Requests : Arrive(r)
    \/ \E r \in Requests : \E f \in Files : Begin(r, f)
    \/ \E r \in Requests : \E out \in Outcomes : ServiceReply(r, out)
    \/ \E r \in Requests : BackoffElapsed(r)
    \/ \E r \in Requests : Send(r)

Spec == Init /\ [][Next]_vars

(* ------------------------ terms of the properties ---------------------- *)

Active == {"calling", "waiting", "responded"}

(* the file passes type and size validation *)
PassesValidation(f) == AnySupported(f.filename) /\ f.size <= MAX_FILE_SIZE

(* the content is a document of the kind the file name selects *)
WellFormed(f) ==
    \/ EndsWith(f.filename, PDF_EXT) /\ f.content.fmt = "pdf"
    \/ ~EndsWith(f.filename, PDF_EXT) /\ f.content.fmt = "docx"

Accepted(f) == PassesValidation(f) /\ WellFormed(f)

AllFailed(outs) == \A i \in 1..Len(outs) : ~outs[i].ok

(* the texts of the non-empty units, joined left to right by one space *)
RECURSIVE JoinLeft(_, _)
JoinLeft(parts, k) ==
    IF k = 0 THEN <<>>
    ELSE IF k = 1 THEN parts[1]
    ELSE JoinLeft(parts, k - 1) \o <<" ">> \o parts[k]

NonEmpty(u) == u # <<>>

ExpectedText(units) ==
    LET kept == SelectSeq(units, NonEmpty) IN JoinLeft(kept, Len(kept))

(* the steps of the handler of request r *)
HandlerStep(r) ==
    \/ \E f \in Files : Begin(r, f)
    \/ \E out \in Outcomes : ServiceReply(r, out)
    \/ BackoffElapsed(r)
    \/ Send(r)

(* ------------------------------ properties ----------------------------- *)

(* C1: a file whose name ends in neither .pdf nor .docx is answered with
   HTTP 400 listing the supported types, before any seek or read of the
   file and without any call to the analysis service. *)
C1_UnsupportedTypeIs400 ==
    \A r \in Requests :
        (pc[r] = "responded" /\ ~AnySupported(file[r].filename)) =>
            /\ response[r].kind = "error"
            /\ response[r].http = 400
            /\ response[r].body.detail = UNSUPPORTED_DETAIL
            /\ io[r] = "none"
            /\ attempts[r] = 0

(* C2: a file with a supported extension and more than 5 MiB is answered
   with HTTP 413 reporting the limit in MB; a file of exactly 5 MiB is not
   rejected for size. *)
C2_OversizedIs413 ==
    \A r \in Requests :
        (pc[r] = "responded" /\ AnySupported(file[r].filename)) =>
            /\ file[r].size > MAX_FILE_SIZE =>
                  /\ response[r].kind = "error"
                  /\ response[r].http = 413
                  /\ response[r].body.detail = TOO_LARGE_DETAIL
            /\ file[r].size = MAX_FILE_SIZE => response[r].http # 413

(* C3: when all 3 attempts of an accepted request fail, the handler returns
   an HTTP 200 body with status "error", llm_source "None", a non-empty
   placeholder analysis and the uploaded file name. *)
C3_ExhaustedRetriesDegrade ==
    \A r \in Requests :
        (/\ pc[r] = "responded"
         /\ Accepted(file[r])
         /\ Len(outcomes[r]) = MAX_ATTEMPTS
         /\ AllFailed(outcomes[r])) =>
            /\ response[r].kind = "result"
            /\ response[r].http = 200
            /\ response[r].body.status = "error"
            /\ response[r].body.llm_source = "None"
            /\ Len(response[r].body.analysis) > 0
            /\ response[r].body.analysis = PLACEHOLDER_ANALYSIS
            /\ response[r].body.filename = file[r].filename

C3_Witness ==
    \E r \in Requests :
        /\ pc[r] = "responded"
        /\ Accepted(file[r])
        /\ Len(outcomes[r]) = MAX_ATTEMPTS
        /\ AllFailed(outcomes[r])
        /\ response[r].kind = "result"

(* C4: when the 1st attempt fails and the 2nd succeeds, the handler returns
   status "success" with the text of the 2nd attempt, exactly one backoff
   wait has occurred and there is no 3rd attempt. *)
C4_SecondAttemptSucceeds ==
    \A r \in Requests :
        (/\ Accepted(file[r])
         /\ Len(outcomes[r]) >= 2
         /\ ~outcomes[r][1].ok
         /\ outcomes[r][2].ok) =>
            /\ pc[r] = "responded"
            /\ response[r].kind = "result"
            /\ response[r].body.status = "success"
            /\ response[r].body.analysis = outcomes[r][2].text
            /\ Len(waits[r]) = 1
            /\ attempts[r] = 2
            /\ Len(outcomes[r]) = 2

C4_Witness ==
    \E r \in Requests :
        /\ pc[r] = "responded"
        /\ Accepted(file[r])
        /\ Len(outcomes[r]) = 2
        /\ ~outcomes[r][1].ok
        /\ outcomes[r][2].ok
        /\ response[r].body.analysis = outcomes[r][2].text

(* C5: when extraction of a validated file fails, the request ends with
   HTTP 500 whose detail is the fixed generic message, without the text of
   the original exception, and the analysis service is never called. *)
C5_ExtractionFailureIsOpaque500 ==
    \A r \in Requests :
        (/\ pc[r] \in Active
         /\ PassesValidation(file[r])
         /\ ~WellFormed(file[r])) =>
            /\ pc[r] = "responded"
            /\ response[r].kind = "error"
            /\ response[r].http = 500
            /\ response[r].body.detail = EXTRACT_FAILED_DETAIL
            /\ \A i \in 1..Len(response[r].body.detail) :
                  /\ response[r].body.detail[i] # PDF_PARSE_MSG[1]
                  /\ response[r].body.detail[i] # DOCX_PARSE_MSG[1]
            /\ attempts[r] = 0
            /\ outcomes[r] = <<>>

C5_Witness ==
    \E r \in Requests :
        /\ pc[r] = "responded"
        /\ PassesValidation(file[r])
        /\ ~WellFormed(file[r])
        /\ io[r] = "read"
        /\ response[r].http = 500

(* C6: a request that passes validation and extraction ends with exactly one
   result, "success" with the model name and the service's text or "error"
   with llm_source "None"; every other request ends with exactly one HTTP
   error with status 400, 413 or 500; no request has both, or two results. *)
C6_ExactlyOneOutcome ==
    \A r \in Requests :
        /\ nResults[r] + nErrors[r] <= 1
        /\ pc[r] \in {"responded", "closed"} <=> nResults[r] + nErrors[r] = 1
        /\ pc[r] = "responded" =>
              IF Accepted(file[r])
              THEN /\ nResults[r] = 1 /\ nErrors[r] = 0
                   /\ response[r].kind = "result"
                   /\ \/ /\ response[r].body.status = "success"
                         /\ response[r].body.llm_source = LLM_SOURCE
                         /\ outcomes[r] # <<>>
                         /\ outcomes[r][Len(outcomes[r])].ok
                         /\ response[r].body.analysis = outcomes[r][Len(outcomes[r])].text
                      \/ /\ response[r].body.status = "error"
                         /\ response[r].body.llm_source = "None"
              ELSE /\ nResults[r] = 0 /\ nErrors[r] = 1
                   /\ response[r].kind = "error"
                   /\ response[r].http \in {400, 413, 500}

C6_Witness ==
    /\ \E r \in Requests :
          pc[r] = "closed" /\ nResults[r] = 1 /\ nErrors[r] = 0
    /\ \E r \in Requests :
          pc[r] = "responded" /\ ~Accepted(file[r]) /\ nErrors[r] = 1

(* C7: while one request is inside the analysis call or a backoff wait, the
   handler of any other unfinished request can still take a step. *)
C7_OthersProgressDuringAnalysis ==
    \A r1, r2 \in Requests :
        (/\ r1 # r2
         /\ pc[r1] \in {"calling", "waiting"}
         /\ pc[r2] \in {"pending", "calling", "waiting", "responded"}) =>
            ENABLED HandlerStep(r2)

(* C8: a request that reaches the analysis makes between 1 and 3 attempts,
   one after the other: an attempt starts only after the previous one failed
   and its wait elapsed, a failure of any kind is followed by a new attempt
   while attempts remain, and nothing follows a success. *)
C8_AttemptsBoundedSequential ==
    \A r \in Requests :
        /\ attempts[r] <= MAX_ATTEMPTS
        /\ (pc[r] \in Active /\ Accepted(file[r])) => attempts[r] >= 1
        /\ pc[r] = "calling" =>
              /\ Len(outcomes[r]) = attempts[r] - 1
              /\ Len(waits[r]) = attempts[r] - 1
              /\ AllFailed(outcomes[r])
        /\ pc[r] = "waiting" =>
              /\ Len(outcomes[r]) = attempts[r]
              /\ Len(waits[r]) = attempts[r]
              /\ AllFailed(outcomes[r])
        /\ (pc[r] = "responded" /\ attempts[r] > 0) =>
              /\ Len(outcomes[r]) = attempts[r]
              /\ Len(waits[r]) = attempts[r] - 1
              /\ AllFailed(SubSeq(outcomes[r], 1, attempts[r] - 1))
              /\ ~outcomes[r][attempts[r]].ok => attempts[r] = MAX_ATTEMPTS

C8_Witness ==
    /\ \E r \in Requests :
          /\ pc[r] = "responded"
          /\ attempts[r] = MAX_ATTEMPTS
          /\ outcomes[r][1].exc.cls = "ValueError"
          /\ outcomes[r][2].exc.cls = "ServiceError"
          /\ outcomes[r][3].ok

(* C9: for a well-formed document the extracted text is the texts of its
   units in document order, the empty ones skipped, joined by single spaces;
   it is empty when there is no non-empty unit. *)
C9_ExtractedTextIsJoin ==
    \A r \in Requests :
        (pc[r] \in Active /\ Accepted(file[r])) =>
            /\ text[r] = ExpectedText(file[r].content.units)
            /\ (\A i \in 1..Len(file[r].content.units) :
                    file[r].content.units[i] = <<>>) => text[r] = <<>>

C9_Witness ==
    \E r \in Requests :
        /\ pc[r] \in Active
        /\ Accepted(file[r])
        /\ file[r].content.units = << <<"b", "c">>, <<>> >>
        /\ text[r] = <<"b", "c">>

(* C10: every backoff wait is between 4 and 10 time units, a request has at
   most 2 of them, none after its final attempt, and their sum is at most
   20 time units. *)
C10_BackoffBounds ==
    \A r \in Requests :
        /\ Len(waits[r]) <= MAX_ATTEMPTS - 1
        /\ \A i \in 1..Len(waits[r]) : waits[r][i] >= 4 /\ waits[r][i] <= 10
        /\ SumSeq(waits[r]) <= 20
        /\ (pc[r] = "responded" /\ attempts[r] > 0) =>
              Len(waits[r]) = attempts[r] - 1

C10_Witness ==
    \E r \in Requests :
        /\ pc[r] = "responded"
        /\ attempts[r] = MAX_ATTEMPTS
        /\ Len(waits[r]) = 2
        /\ SumSeq(waits[r]) = 8
====
